---- MODULE Spec2Model ----
\* The Ghost Vault of the presence repository (src/virem_vault/driver.py):
\* a per-record file store whose records are encrypted with a key derived
\* from a caller-supplied wake phrase.
EXTENDS Integers, Sequences, FiniteSets, TLC

\* ------------------------------------------------------------------ bounds
\* Number of distinct non-empty wake phrases the callers use.
NumPhrases == 2
\* Most units of a record that reach the file before a failing write stops.
MaxShort == 1
\* Number of execution contexts that call the driver concurrently.
NumContexts == 2
\* Units of a record that one write to the file transfers.
BlockLen == 4
\* Calls that one execution context makes.
MaxCalls == 2
\* Lines the user types into the demo program.
MaxInputs == 3
\* Driver instances opened on the same vault location.
NumInstances == 2

\* ---------------------------------------------------------- Python values
\* A Python object is a record [t |-> type name, v |-> value].
PyNone == [t |-> "NoneType", v |-> <<>>]
PyBool(b) == [t |-> "bool", v |-> b]
PyInt(n) == [t |-> "int", v |-> n]
PyStr(s) == [t |-> "str", v |-> s]
\* v is the sequence of the elements
PyList(xs) == [t |-> "list", v |-> xs]
PyTuple(xs) == [t |-> "tuple", v |-> xs]
\* v is the sequence of <<key, value>> pairs, in insertion order
PyDict(kvs) == [t |-> "dict", v |-> kvs]
PySet(xs) == [t |-> "set", v |-> xs]

\* The memory ids callers use.
MemoryIds == {"user_interaction_ghost_123", "non_existent_ghost_memory"}

PhraseText == <<"remember the sunflower", "forget the moon", "any_phrase", "xyzzy">>
\* The wake phrases callers pass: non-empty strings, the empty string, and
\* None (a non-string).
GoodPhrases == {PyStr(PhraseText[i]) : i \in 1..NumPhrases}
WakePhrases == GoodPhrases \cup {PyStr(""), PyNone}

\* The payloads callers pass: two JSON-serializable dicts and one that
\* holds a set, which json.dumps rejects.
PayloadA ==
    PyDict(<< <<PyStr("secret_flag"), PyBool(TRUE)>> >>)
PayloadB ==
    PyDict(<< <<PyStr("joy"), PyList(<<PyInt(9), PyNone>>)>> >>)
PayloadBad ==
    PyDict(<< <<PyStr("seen"), PySet(<<>>)>> >>)
GoodPayloads == {PayloadA, PayloadB}
Payloads == GoodPayloads \cup {PayloadBad}

\* ------------------------------------------------------------ json module
\* JSON text is a sequence of tokens <<kind, text>>.
Punct(c) == <<"punct", c>>
Lit(w) == <<"lit", w>>
NumTok(n) == <<"num", n>>
StrTok(s) == <<"str", s>>

\* json.dumps accepts None, bool, int, str, list, tuple and dict with
\* str/int/bool/None keys; anything else raises TypeError.
RECURSIVE Serializable(_)
Serializable(o) ==
    CASE o.t \in {"NoneType", "bool", "int", "str"} -> TRUE
      [] o.t \in {"list", "tuple"} ->
            \A i \in 1..Len(o.v) : Serializable(o.v[i])
      [] o.t = "dict" ->
            \A i \in 1..Len(o.v) :
                /\ o.v[i][1].t \in {"str", "int", "bool", "NoneType"}
                /\ Serializable(o.v[i][2])
      [] OTHER -> FALSE

\* The decimal text of a small integer, as str(n) gives it.
DecimalText(n) ==
    <<"0", "1", "2", "3", "4", "5", "6", "7", "8", "9">>[n + 1]

\* A dict key as json.dumps writes it: always a JSON string.
KeyTok(k) ==
    CASE k.t = "str" -> StrTok(k.v)
      [] k.t = "int" -> StrTok(DecimalText(k.v))
      [] k.t = "bool" -> StrTok(IF k.v THEN "true" ELSE "false")
      [] OTHER -> StrTok("null")

RECURSIVE Encode(_), EncodeItems(_, _), EncodeMembers(_, _)
\* The token text of a serializable object.
Encode(o) ==
    CASE o.t = "NoneType" -> <<Lit("null")>>
      [] o.t = "bool" -> <<Lit(IF o.v THEN "true" ELSE "false")>>
      [] o.t = "int" -> <<NumTok(o.v)>>
      [] o.t = "str" -> <<StrTok(o.v)>>
      [] o.t \in {"list", "tuple"} ->
            <<Punct("[")>> \o EncodeItems(o.v, 1) \o <<Punct("]")>>
      [] OTHER ->
            <<Punct("{")>> \o EncodeMembers(o.v, 1) \o <<Punct("}")>>
EncodeItems(xs, i) ==
    IF i > Len(xs) THEN <<>>
    ELSE (IF i > 1 THEN <<Punct(",")>> ELSE <<>>)
         \o Encode(xs[i]) \o EncodeItems(xs, i + 1)
EncodeMembers(kvs, i) ==
    IF i > Len(kvs) THEN <<>>
    ELSE (IF i > 1 THEN <<Punct(",")>> ELSE <<>>)
         \o <<KeyTok(kvs[i][1]), Punct(":")>> \o Encode(kvs[i][2])
         \o EncodeMembers(kvs, i + 1)

\* json.dumps(data): the text, or TypeError.
json_dumps(o) ==
    IF Serializable(o)
    THEN [exc |-> "none", text |-> Encode(o)]
    ELSE [exc |-> "TypeError", text |-> <<>>]

ParseFail == [ok |-> FALSE, val |-> PyNone, next |-> 0]
ParseOk(v, n) == [ok |-> TRUE, val |-> v, next |-> n]

RECURSIVE ParseValue(_, _), ParseElements(_, _, _), ParseMembers(_, _, _)
\* The JSON value that starts at token i of s.
ParseValue(s, i) ==
    IF i > Len(s) THEN ParseFail
    ELSE CASE s[i][1] = "lit" ->
                ParseOk(IF s[i][2] = "null" THEN PyNone
                        ELSE PyBool(s[i][2] = "true"), i + 1)
           [] s[i][1] = "num" -> ParseOk(PyInt(s[i][2]), i + 1)
           [] s[i][1] = "str" -> ParseOk(PyStr(s[i][2]), i + 1)
           [] s[i] = Punct("[") ->
                IF i + 1 <= Len(s) /\ s[i + 1] = Punct("]")
                THEN ParseOk(PyList(<<>>), i + 2)
                ELSE ParseElements(s, i + 1, <<>>)
           [] s[i] = Punct("{") ->
                IF i + 1 <= Len(s) /\ s[i + 1] = Punct("}")
                THEN ParseOk(PyDict(<<>>), i + 2)
                ELSE ParseMembers(s, i + 1, <<>>)
           [] OTHER -> ParseFail
\* The elements of an array from token i on, after the elements acc.
ParseElements(s, i, acc) ==
    LET r == ParseValue(s, i) IN
    IF ~r.ok \/ r.next > Len(s) THEN ParseFail
    ELSE IF s[r.next] = Punct(",")
         THEN ParseElements(s, r.next + 1, Append(acc, r.val))
         ELSE IF s[r.next] = Punct("]")
              THEN ParseOk(PyList(Append(acc, r.val)), r.next + 1)
              ELSE ParseFail
\* The members of an object from token i on, after the members acc.
ParseMembers(s, i, acc) ==
    IF i + 1 > Len(s) \/ s[i][1] # "str" \/ s[i + 1] # Punct(":")
    THEN ParseFail
    ELSE LET r == ParseValue(s, i + 2) IN
         IF ~r.ok \/ r.next > Len(s) THEN ParseFail
         ELSE LET kv == <<PyStr(s[i][2]), r.val>> IN
              IF s[r.next] = Punct(",")
              THEN ParseMembers(s, r.next + 1, Append(acc, kv))
              ELSE IF s[r.next] = Punct("}")
                   THEN ParseOk(PyDict(Append(acc, kv)), r.next + 1)
                   ELSE ParseFail

\* json.loads(text): the value, or JSONDecodeError (a ValueError) when the
\* text is not exactly one JSON value.
json_loads(s) ==
    LET r == ParseValue(s, 1) IN
    IF r.ok /\ r.next = Len(s) + 1
    THEN [exc |-> "none", val |-> r.val]
    ELSE [exc |-> "ValueError", val |-> PyNone]

\* ------------------------------------------------------ bytes and Fernet
\* str.encode('utf-8') and bytes.decode('utf-8'): a byte string is a
\* sequence of units, <<"u8", token>> for the bytes of a text token.
utf8_encode(text) == [i \in 1..Len(text) |-> <<"u8", text[i]>>]
\* A Fernet token is base64 text: it decodes as text, but not as JSON tokens.
utf8_decode(bytes) ==
    [i \in 1..Len(bytes) |->
        IF bytes[i][1] = "u8" THEN bytes[i][2] ELSE <<"b64", bytes[i]>>]

KEY_DERIVATION_SALT == "presence_ai_ghost_vault_salt"
VAULT_DATA_DIR == "vault_data"

sha256(bytes) == <<"sha256", bytes>>
urlsafe_b64encode(digest) == <<"b64", digest>>

\* Variant: the emptiness test is dropped, only a non-string is refused.
derive_key_accepts_empty(phrase) ==
    IF phrase.t # "str"
    THEN [exc |-> "ValueError", key |-> <<>>]
    ELSE [exc |-> "none",
          key |-> urlsafe_b64encode(sha256(<<phrase.v, KEY_DERIVATION_SALT>>))]

\* Variant: the phrase is left out of the hash, the key is that of the salt.
derive_key_salt_only(phrase) ==
    IF phrase.t # "str" \/ phrase.v = ""
    THEN [exc |-> "ValueError", key |-> <<>>]
    ELSE [exc |-> "none",
          key |-> urlsafe_b64encode(sha256(<<"", KEY_DERIVATION_SALT>>))]

\* _derive_key_from_phrase: the Fernet key of a phrase, or ValueError for
\* an empty or non-string phrase.
derive_key_from_phrase(phrase) ==
    IF phrase.t # "str" \/ phrase.v = ""
    THEN [exc |-> "ValueError", key |-> <<>>]
    ELSE [exc |-> "none",
          key |-> urlsafe_b64encode(sha256(<<phrase.v, KEY_DERIVATION_SALT>>))]

\* Variant: the token is sealed under a key that does not depend on the
\* caller's key.
fernet_encrypt_fixed_key(key, data, nonce) ==
    LET fixed == urlsafe_b64encode(sha256(<<"", KEY_DERIVATION_SALT>>))
        body == <<<<"hdr", nonce>>>>
                \o [i \in 1..Len(data) |-> <<"ct", fixed, nonce, data[i]>>]
    IN  Append(body, <<"mac", fixed, body>>)

\* Fernet.encrypt: version, timestamp and IV (the nonce), the ciphertext of
\* each plaintext unit under the key, and the HMAC of all of it under the key.
fernet_encrypt(key, data, nonce) ==
    LET body == <<<<"hdr", nonce>>>>
                \o [i \in 1..Len(data) |-> <<"ct", key, nonce, data[i]>>]
    IN  Append(body, <<"mac", key, body>>)

\* Variant: the HMAC is not verified against the key.
fernet_decrypt_unverified(key, token) ==
    LET n == Len(token)
        body == SubSeq(token, 1, n - 1)
    IN  IF n >= 2 /\ token[1][1] = "hdr" /\ token[n][1] = "mac"
        THEN [exc |-> "none",
              data |-> [i \in 1..(n - 2) |-> body[i + 1][4]]]
        ELSE [exc |-> "InvalidToken", data |-> <<>>]

\* Variant: a token that does not end in an HMAC is rejected with an error
\* of the decoder instead of InvalidToken.
fernet_decrypt_format_error(key, token) ==
    LET n == Len(token)
        body == SubSeq(token, 1, n - 1)
    IN  IF n < 2 \/ token[n][1] # "mac"
        THEN [exc |-> "TypeError", data |-> <<>>]
        ELSE IF token[1][1] = "hdr" /\ token[n] = <<"mac", key, body>>
        THEN [exc |-> "none",
              data |-> [i \in 1..(n - 2) |-> body[i + 1][4]]]
        ELSE [exc |-> "InvalidToken", data |-> <<>>]

\* Fernet.decrypt: the plaintext when the token is well formed and its HMAC
\* verifies under the key, InvalidToken otherwise.
fernet_decrypt(key, token) ==
    LET n == Len(token)
        body == SubSeq(token, 1, n - 1)
    IN  IF n >= 2 /\ token[1][1] = "hdr" /\ token[n] = <<"mac", key, body>>
        THEN [exc |-> "none",
              data |-> [i \in 1..(n - 2) |-> body[i + 1][4]]]
        ELSE [exc |-> "InvalidToken", data |-> <<>>]

\* ------------------------------------------------------------ file system
\* Variant: the file name does not depend on the memory id.
get_memory_filepath_shared(memory_id) ==
    <<VAULT_DATA_DIR, sha256(""), ".ghost">>

\* _get_memory_filepath: the record file of a memory id.
get_memory_filepath(memory_id) ==
    <<VAULT_DATA_DIR, sha256(memory_id), ".ghost">>

Paths == {get_memory_filepath(m) : m \in MemoryIds}
NoFile == [exists |-> FALSE, bytes |-> <<>>]
File(bytes) == [exists |-> TRUE, bytes |-> bytes]

\* os.path.exists
os_path_exists(fsys, path) == fsys[path].exists
\* Variant: the file is emptied instead of removed.
os_remove_empties(fsys, path) == [fsys EXCEPT ![path] = File(<<>>)]
\* os.remove
os_remove(fsys, path) == [fsys EXCEPT ![path] = NoFile]
\* Variant: the file is opened for update ('r+b'), which keeps its content.
open_keeps_content(fsys, path) ==
    [fsys EXCEPT ![path] = File(fsys[path].bytes)]
\* open(path, 'wb' or 'w') creates the file or truncates it to zero length;
\* the handle's offset is 0.
open_truncate(fsys, path) == [fsys EXCEPT ![path] = File(<<>>)]
\* A write of bytes through a handle whose offset is off: the bytes replace
\* what the file holds there, the rest of the file stays, and a gap between
\* the end of the file and the offset reads as NUL bytes.
write_at(fsys, path, off, bytes) ==
    LET old == fsys[path].bytes
        n == IF Len(old) > off + Len(bytes) THEN Len(old)
             ELSE off + Len(bytes)
    IN  [fsys EXCEPT ![path] =
            File([i \in 1..n |->
                    IF i > off /\ i <= off + Len(bytes) THEN bytes[i - off]
                    ELSE IF i <= Len(old) THEN old[i]
                    ELSE <<"nul">>])]

Min(a, b) == IF a < b THEN a ELSE b

\* ------------------------------------------------------- VIREMVaultDriver
\* What the file system does to a call: nothing, or an OSError raised by
\* open(), by the write (after `short` units reached the file), by the read,
\* or by os.remove.
StoreFaults ==
    {[kind |-> "none", short |-> 0], [kind |-> "open", short |-> 0]}
    \cup {[kind |-> "write", short |-> k] : k \in 0..MaxShort}
RetrieveFaults == {"none", "read", "read_and_remove"}
DeleteFaults == {"none", "remove"}

\* Variant: the file is opened without a with statement and closed after
\* the body, so that an exception of the body skips the close.
open_without_with(opened, raised) ==
    [handles |-> IF opened THEN 1 ELSE 0,
     open_at_exit |-> IF opened /\ raised THEN 1 ELSE 0]

\* `with open(...) as f:` around a body: the handles the statement opens
\* (none when open() itself raises) and those still open when control
\* leaves it; the with statement closes the file whether or not the body
\* raised.
with_open(opened, raised) ==
    [handles |-> IF opened THEN 1 ELSE 0, open_at_exit |-> 0]

\* Variant: the key is written after the record, in the clear.
record_bytes_with_key(enc, key, text, nonce) ==
    Append(IF enc THEN fernet_encrypt(key, utf8_encode(text), nonce)
           ELSE utf8_encode(text),
           <<"u8", <<"key", key>>>>)

\* The bytes store_memory writes for a text: the Fernet token of its UTF-8
\* bytes when encryption is enabled, else the UTF-8 bytes themselves.
record_bytes(enc, key, text, nonce) ==
    IF enc THEN fernet_encrypt(key, utf8_encode(text), nonce)
    ELSE utf8_encode(text)

\* The exceptions the calls of the driver raise; all are subclasses of
\* Exception, so an `except Exception` clause catches each of them.
ExceptionClasses == {"ValueError", "TypeError", "OSError", "InvalidToken"}

\* Variant: store_memory without its generic clause.
store_handler_no_generic(exc) ==
    CASE exc = "none" -> "none"
      [] exc = "ValueError" -> "ValueError"
      [] OTHER -> "propagated"

\* The except clause of store_memory that catches an exception of the try
\* block (lines 102-107); an exception no clause catches is propagated to
\* the caller.
store_handler(exc) ==
    CASE exc = "none" -> "none"
      [] exc = "ValueError" -> "ValueError"
      [] exc \in ExceptionClasses -> "Exception"
      [] OTHER -> "propagated"

\* store_memory(memory_id, data, wake_phrase): the value returned, the
\* exception raised inside the try block and the except clause that caught
\* it (if any), and the file system afterwards.
store_memory(fsys, enc, memory_id, data, wake_phrase, nonce, io) ==
    LET filepath == get_memory_filepath(memory_id)
        fernet == derive_key_from_phrase(wake_phrase)
        json_data == json_dumps(data)
        bytes == record_bytes(enc, fernet.key, json_data.text, nonce)
        short == Min(io.short, Len(bytes) - 1)
        opened == open_truncate(fsys, filepath)
        exc == IF fernet.exc # "none" THEN fernet.exc
               ELSE IF json_data.exc # "none" THEN json_data.exc
               ELSE IF io.kind # "none" THEN "OSError"
               ELSE "none"
        reached == fernet.exc = "none" /\ json_data.exc = "none"
        file == with_open(reached /\ io.kind # "open", io.kind = "write")
    IN  [ret |-> exc = "none",
         exc |-> exc,
         handler |-> store_handler(exc),
         fault |-> IF reached THEN io.kind ELSE "none",
         handles |-> file.handles,
         open_at_exit |-> file.open_at_exit,
         fs |-> IF ~reached \/ io.kind = "open" THEN fsys
                ELSE IF io.kind = "write"
                THEN write_at(opened, filepath, 0, SubSeq(bytes, 1, short))
                ELSE write_at(opened, filepath, 0, bytes)]

\* Variant: the encryption_enabled test of the read path is inverted.
read_record_inverted(enc, key, bytes) ==
    LET plain == IF ~enc THEN fernet_decrypt(key, bytes)
                 ELSE [exc |-> "none", data |-> bytes]
        parsed == json_loads(utf8_decode(plain.data))
    IN  IF plain.exc # "none"
        THEN [exc |-> plain.exc, val |-> PyNone]
        ELSE parsed

\* The lines of retrieve_memory's try block that follow the read of the
\* file: decrypt (when enabled), decode and parse.
read_record(enc, key, bytes) ==
    LET plain == IF enc THEN fernet_decrypt(key, bytes)
                 ELSE [exc |-> "none", data |-> bytes]
        parsed == json_loads(utf8_decode(plain.data))
    IN  IF plain.exc # "none"
        THEN [exc |-> plain.exc, val |-> PyNone]
        ELSE parsed

\* Variant: InvalidToken is not caught by its own clause and reaches the
\* generic one, which removes the file.
retrieve_handler_generic_first(exc) ==
    CASE exc = "none" -> "none"
      [] exc = "ValueError" -> "ValueError"
      [] OTHER -> "Exception"

\* The except clause of retrieve_memory that catches an exception of the
\* try block (lines 141-148).
retrieve_handler(exc) ==
    CASE exc = "none" -> "none"
      [] exc = "InvalidToken" -> "InvalidToken"
      [] exc = "ValueError" -> "ValueError"
      [] exc \in ExceptionClasses -> "Exception"
      [] OTHER -> "propagated"

\* Variant: every except clause removes the file, not only the generic one.
retrieve_try_always_cleans(fsys, enc, filepath, wake_phrase, io) ==
    LET fernet == derive_key_from_phrase(wake_phrase)
        r == read_record(enc, fernet.key, fsys[filepath].bytes)
        exc == IF fernet.exc # "none" THEN fernet.exc
               ELSE IF io # "none" THEN "OSError"
               ELSE r.exc
        handler == retrieve_handler(exc)
        reached == fernet.exc = "none"
        file == with_open(reached, io # "none")
    IN  [ret |-> IF exc = "none" THEN r.val ELSE PyNone,
         exc |-> exc,
         handler |-> handler,
         fault |-> IF reached THEN io ELSE "none",
         handles |-> file.handles,
         open_at_exit |-> file.open_at_exit,
         derived |-> TRUE,
         decrypted |-> enc /\ reached /\ io = "none",
         fs |-> IF handler # "none"
                   /\ ~(reached /\ io = "read_and_remove")
                THEN os_remove(fsys, filepath)
                ELSE fsys]

\* retrieve_memory from its try statement on (the file exists): derive the
\* key, read, decrypt and parse; the generic except clause removes the file.
retrieve_try(fsys, enc, filepath, wake_phrase, io) ==
    LET fernet == derive_key_from_phrase(wake_phrase)
        r == read_record(enc, fernet.key, fsys[filepath].bytes)
        exc == IF fernet.exc # "none" THEN fernet.exc
               ELSE IF io # "none" THEN "OSError"
               ELSE r.exc
        handler == retrieve_handler(exc)
        reached == fernet.exc = "none"
        file == with_open(reached, io # "none")
    IN  [ret |-> IF exc = "none" THEN r.val ELSE PyNone,
         exc |-> exc,
         handler |-> handler,
         fault |-> IF reached THEN io ELSE "none",
         handles |-> file.handles,
         open_at_exit |-> file.open_at_exit,
         derived |-> TRUE,
         decrypted |-> enc /\ reached /\ io = "none",
         fs |-> IF handler = "Exception"
                   /\ ~(reached /\ io = "read_and_remove")
                THEN os_remove(fsys, filepath)
                ELSE fsys]

\* Variant: the key is derived before the existence test.
retrieve_memory_derives_first(fsys, enc, memory_id, wake_phrase, io) ==
    LET filepath == get_memory_filepath(memory_id)
        fernet == derive_key_from_phrase(wake_phrase)
    IN  IF fernet.exc # "none"
        THEN [ret |-> PyNone, exc |-> fernet.exc, handler |-> "ValueError",
              fault |-> "none", derived |-> TRUE, decrypted |-> FALSE,
              handles |-> 0, open_at_exit |-> 0, fs |-> fsys]
        ELSE IF ~os_path_exists(fsys, filepath)
        THEN [ret |-> PyNone, exc |-> "none", handler |-> "not_found",
              fault |-> "none", derived |-> TRUE, decrypted |-> FALSE,
              handles |-> 0, open_at_exit |-> 0, fs |-> fsys]
        ELSE retrieve_try(fsys, enc, filepath, wake_phrase, io)

\* retrieve_memory(memory_id, wake_phrase): the value returned (PyNone for
\* None), the branch that returned it, whether a key was derived and a
\* decryption attempted, and the file system afterwards.
retrieve_memory(fsys, enc, memory_id, wake_phrase, io) ==
    LET filepath == get_memory_filepath(memory_id)
    IN  IF ~os_path_exists(fsys, filepath)
        THEN [ret |-> PyNone, exc |-> "none", handler |-> "not_found",
              fault |-> "none", derived |-> FALSE, decrypted |-> FALSE,
              handles |-> 0, open_at_exit |-> 0, fs |-> fsys]
        ELSE retrieve_try(fsys, enc, filepath, wake_phrase, io)

\* Variant: the call reports success and leaves the file in place.
delete_memory_keeps_file(fsys, memory_id, io) ==
    LET filepath == get_memory_filepath(memory_id)
    IN  IF ~os_path_exists(fsys, filepath)
        THEN [ret |-> FALSE, handler |-> "not_found", fault |-> "none",
              fs |-> fsys]
        ELSE [ret |-> TRUE, handler |-> "none", fault |-> "none",
              fs |-> fsys]

\* Variant: the existence test is dropped and a missing file counts as removed.
delete_memory_unchecked(fsys, memory_id, io) ==
    LET filepath == get_memory_filepath(memory_id)
    IN  IF io = "remove"
        THEN [ret |-> FALSE, handler |-> "OSError", fault |-> "remove",
              fs |-> fsys]
        ELSE [ret |-> TRUE, handler |-> "none", fault |-> "none",
              fs |-> os_remove(fsys, filepath)]

\* delete_memory(memory_id): the value returned and the file system
\* afterwards.
delete_memory(fsys, memory_id, io) ==
    LET filepath == get_memory_filepath(memory_id)
    IN  IF ~os_path_exists(fsys, filepath)
        THEN [ret |-> FALSE, handler |-> "not_found", fault |-> "none",
              fs |-> fsys]
        ELSE IF io = "remove"
        THEN [ret |-> FALSE, handler |-> "OSError", fault |-> "remove",
              fs |-> fsys]
        ELSE [ret |-> TRUE, handler |-> "none", fault |-> "none",
              fs |-> os_remove(fsys, filepath)]

\* ------------------------------------------------------------------ state
VARIABLES
    encryption_enabled, \* self.encryption_enabled, read from the config
    fs,                 \* the vault directory: record file path -> file
    last,               \* the call that returned last, with its outcome
    stored,             \* per id: the payload and phrase of the successful
                        \* store whose file no later call has changed
    deleted,            \* per id: a delete succeeded and no store_memory
                        \* call of the id has been made since
    ctx,                \* per execution context: where its call stands
    demo,               \* the demo program: where its loop stands
    via                 \* the driver instances the last call and the call
                        \* before it were made on

vars == <<encryption_enabled, fs, last, stored, deleted, ctx, demo, via>>

Contexts == 1..NumContexts
\* A context between calls; ret, seen, racing and expect keep what its
\* last call returned, read and had to expect.
Idle ==
    [pc |-> "idle", op |-> "none", id |-> "", phrase |-> PyNone,
     data |-> PyNone, buf |-> <<>>, off |-> 0, old |-> NoFile,
     overlapped |-> FALSE, ret |-> PyNone, seen |-> NoFile,
     racing |-> FALSE, expect |-> {}, calls |-> 0]

NoRecord == [data |-> PyNone, phrase |-> PyNone]
\* No call has been made on any driver instance.
NoInstance == [cur |-> 0, prev |-> 0]
\* The demo program is not running.
NoDemo ==
    [pc |-> "none", persistent_memory_enabled |-> FALSE,
     debug_mode |-> FALSE, inputs |-> <<>>, store_calls |-> 0,
     raised |-> "none"]
NoCall ==
    [op |-> "none", id |-> "", phrase |-> PyNone, data |-> PyNone,
     ret |-> PyNone, handler |-> "none", fault |-> "none",
     derived |-> FALSE, decrypted |-> FALSE,
     handles |-> 0, open_at_exit |-> 0,
     after_store |-> FALSE, over |-> PyNone]

\* VIREMVaultDriver(): the vault directory exists and holds what earlier
\* calls left; here it starts empty.
Init ==
    /\ encryption_enabled \in BOOLEAN
    /\ fs = [p \in Paths |-> NoFile]
    /\ last = NoCall
    /\ stored = [m \in MemoryIds |-> NoRecord]
    /\ deleted = [m \in MemoryIds |-> FALSE]
    /\ ctx = [c \in Contexts |-> Idle]
    /\ demo = NoDemo
    /\ via = NoInstance

\* The call that returned last was a successful store_memory of this id.
FollowsStore(memory_id) ==
    last.op = "store" /\ last.id = memory_id /\ last.ret = PyBool(TRUE)

\* A caller runs store_memory(memory_id, data, wake_phrase) to its return.
Store(memory_id, data, wake_phrase, nonce, io) ==
    LET out == store_memory(fs, encryption_enabled, memory_id, data,
                            wake_phrase, nonce, io)
    IN  /\ fs' = out.fs
        /\ last' = [op |-> "store", id |-> memory_id, phrase |-> wake_phrase,
                    data |-> data, ret |-> PyBool(out.ret),
                    handler |-> out.handler, fault |-> out.fault,
                    derived |-> TRUE, decrypted |-> FALSE,
                    handles |-> out.handles,
                    open_at_exit |-> out.open_at_exit,
                    after_store |-> FALSE,
                    over |-> stored[memory_id].phrase]
        /\ stored' = [stored EXCEPT ![memory_id] =
                        IF out.ret
                        THEN [data |-> data, phrase |-> wake_phrase]
                        ELSE IF out.fs # fs THEN NoRecord ELSE @]
        /\ deleted' = [deleted EXCEPT ![memory_id] = FALSE]
        /\ UNCHANGED <<encryption_enabled, ctx, demo>>

\* A caller runs retrieve_memory(memory_id, wake_phrase) to its return.
Retrieve(memory_id, wake_phrase, io) ==
    LET out == retrieve_memory(fs, encryption_enabled, memory_id,
                               wake_phrase, io)
    IN  /\ fs' = out.fs
        /\ last' = [op |-> "retrieve", id |-> memory_id,
                    phrase |-> wake_phrase, data |-> PyNone,
                    ret |-> out.ret, handler |-> out.handler,
                    fault |-> out.fault, derived |-> out.derived,
                    decrypted |-> out.decrypted,
                    handles |-> out.handles,
                    open_at_exit |-> out.open_at_exit,
                    after_store |-> FollowsStore(memory_id),
                    over |-> IF FollowsStore(memory_id) THEN last.over
                             ELSE PyNone]
        /\ stored' = [stored EXCEPT ![memory_id] =
                        IF out.fs # fs THEN NoRecord ELSE @]
        /\ UNCHANGED <<encryption_enabled, deleted, ctx, demo>>

\* A caller runs delete_memory(memory_id) to its return.
Delete(memory_id, io) ==
    LET out == delete_memory(fs, memory_id, io)
    IN  /\ fs' = out.fs
        /\ last' = [op |-> "delete", id |-> memory_id, phrase |-> PyNone,
                    data |-> PyNone, ret |-> PyBool(out.ret),
                    handler |-> out.handler, fault |-> out.fault,
                    derived |-> FALSE, decrypted |-> FALSE,
                    handles |-> 0, open_at_exit |-> 0,
                    after_store |-> FALSE, over |-> PyNone]
        /\ stored' = [stored EXCEPT ![memory_id] =
                        IF out.fs # fs THEN NoRecord ELSE @]
        /\ deleted' = [deleted EXCEPT ![memory_id] = @ \/ out.ret]
        /\ UNCHANGED <<encryption_enabled, ctx, demo>>

\* The timestamp and IV that Fernet draws in execution context c.
Nonce(c) == <<"iv", c>>

\* The environment's part in a call: the fault the file system raises. It
\* has a part only in a call that gets as far as touching the file.
StoreEnv(data, wake_phrase) ==
    IF derive_key_from_phrase(wake_phrase).exc # "none"
       \/ json_dumps(data).exc # "none"
    THEN {[kind |-> "none", short |-> 0]}
    ELSE StoreFaults
RetrieveEnv(memory_id, wake_phrase) ==
    IF ~os_path_exists(fs, get_memory_filepath(memory_id))
       \/ derive_key_from_phrase(wake_phrase).exc # "none"
    THEN {"none"}
    ELSE RetrieveFaults
DeleteEnv(memory_id) ==
    IF ~os_path_exists(fs, get_memory_filepath(memory_id))
    THEN {"none"}
    ELSE DeleteFaults

StoreCall ==
    \E m \in MemoryIds, d \in Payloads, w \in WakePhrases :
        \E io \in StoreEnv(d, w) :
            Store(m, d, w, Nonce(0), io) /\ UNCHANGED via
RetrieveCall ==
    \E m \in MemoryIds, w \in WakePhrases :
        \E io \in RetrieveEnv(m, w) : Retrieve(m, w, io) /\ UNCHANGED via
DeleteCall ==
    \E m \in MemoryIds :
        \E io \in DeleteEnv(m) : Delete(m, io) /\ UNCHANGED via

Next == StoreCall \/ RetrieveCall \/ DeleteCall

Spec == Init /\ [][Next]_vars

\* ------------------------------------------------- records changed on disk
\* The record files are ordinary files of the vault directory: between two
\* calls of the driver something else can have changed one. retrieve_memory
\* reads whatever the file holds (lines 130-131 and 137-138).
TamperKinds == {"flip", "truncate", "reseal"}

\* A text that is not JSON: an object that is never closed.
MalformedText == <<Punct("{"), StrTok("secret_flag")>>

\* What a changed record file holds: the record with its first unit after
\* the header replaced, the record without its last unit, or a well-formed
\* record, sealed with the key of the phrase, of a text that is not JSON.
tampered_bytes(kind, enc, bytes, phrase) ==
    CASE kind = "flip" ->
            [i \in 1..Len(bytes) |-> IF i = 2 THEN <<"junk">> ELSE bytes[i]]
      [] kind = "truncate" -> SubSeq(bytes, 1, Len(bytes) - 1)
      [] OTHER ->
            record_bytes(enc, derive_key_from_phrase(phrase).key,
                         MalformedText, Nonce(0))

\* The file of an intact record of memory_id is changed behind the driver.
Tamper(memory_id, kind) ==
    LET filepath == get_memory_filepath(memory_id)
    IN  /\ stored[memory_id] # NoRecord
        /\ fs' = [fs EXCEPT ![filepath] =
                    File(tampered_bytes(kind, encryption_enabled, @.bytes,
                                        stored[memory_id].phrase))]
        /\ last' = [NoCall EXCEPT !.op = "tamper", !.id = memory_id]
        /\ stored' = [stored EXCEPT ![memory_id] = NoRecord]
        /\ UNCHANGED <<encryption_enabled, deleted, ctx, demo, via>>

TamperCall == \E m \in MemoryIds, k \in TamperKinds : Tamper(m, k)

\* The calls around a change: stores and retrieves that no fault strikes.
TamperStore ==
    \E m \in MemoryIds, d \in GoodPayloads, w \in GoodPhrases :
        /\ Store(m, d, w, Nonce(0), [kind |-> "none", short |-> 0])
        /\ UNCHANGED via
TamperRetrieve ==
    \E m \in MemoryIds, w \in WakePhrases :
        Retrieve(m, w, "none") /\ UNCHANGED via

TamperNext == TamperStore \/ TamperRetrieve \/ TamperCall

TamperSpec == Init /\ [][TamperNext]_vars

\* ------------------------------------------------- concurrent contexts
\* The driver takes no lock: calls of different execution contexts
\* interleave at their file-system operations. store_memory is open(), one
\* write per block, and the return; retrieve_memory is the os.path.exists
\* test, then the read of the whole file, its decryption and the return.

\* The concurrent callers contend for one record.
ConcIds == {"user_interaction_ghost_123"}

\* Context c has opened the record file of id m for writing and has not
\* written its last block.
Writing(c, m) == ctx[c].pc = "write" /\ ctx[c].id = m

\* store_memory lines 87-92: the key, the JSON text and the bytes to write.
BeginStore(c, memory_id, data, wake_phrase) ==
    LET fernet == derive_key_from_phrase(wake_phrase)
        json_data == json_dumps(data)
    IN  /\ ctx[c].pc = "idle"
        /\ ctx[c].calls < MaxCalls
        /\ ctx' = [ctx EXCEPT ![c] =
                    [Idle EXCEPT !.pc = "open", !.op = "store",
                        !.calls = ctx[c].calls + 1,
                        !.id = memory_id, !.phrase = wake_phrase,
                        !.data = data,
                        !.buf = record_bytes(encryption_enabled, fernet.key,
                                             json_data.text, Nonce(c))]]
        /\ UNCHANGED <<encryption_enabled, fs, last, stored, deleted,
                     demo, via>>

\* store_memory lines 93 and 98: open(filepath, 'wb' or 'w').
OpenForWrite(c) ==
    LET filepath == get_memory_filepath(ctx[c].id)
        others == {o \in Contexts \ {c} : Writing(o, ctx[c].id)}
    IN  /\ ctx[c].pc = "open"
        /\ fs' = open_truncate(fs, filepath)
        /\ ctx' = [o \in Contexts |->
                    IF o = c
                    THEN [ctx[c] EXCEPT !.pc = "write", !.off = 0,
                            !.old = fs[filepath],
                            !.overlapped = others # {}]
                    ELSE IF o \in others
                    THEN [ctx[o] EXCEPT !.overlapped = TRUE]
                    ELSE ctx[o]]
        /\ UNCHANGED <<encryption_enabled, last, stored, deleted,
                     demo, via>>

\* store_memory lines 94 and 99: one block of f.write reaches the file; after
\* the last block the file is closed and the call returns True.
WriteBlock(c) ==
    LET filepath == get_memory_filepath(ctx[c].id)
        k == Min(BlockLen, Len(ctx[c].buf) - ctx[c].off)
        block == SubSeq(ctx[c].buf, ctx[c].off + 1, ctx[c].off + k)
        done == ctx[c].off + k = Len(ctx[c].buf)
    IN  /\ ctx[c].pc = "write"
        /\ fs' = write_at(fs, filepath, ctx[c].off, block)
        /\ ctx' = [ctx EXCEPT ![c].off = @ + k,
                              ![c].pc = IF done THEN "idle" ELSE "write",
                              ![c].ret = IF done THEN PyBool(TRUE) ELSE @]
        /\ UNCHANGED <<encryption_enabled, last, stored, deleted,
                     demo, via>>

\* retrieve_memory lines 122-125: the existence test.
BeginRetrieve(c, memory_id, wake_phrase) ==
    LET filepath == get_memory_filepath(memory_id)
    IN  /\ ctx[c].pc = "idle"
        /\ ctx[c].calls < MaxCalls
        /\ ctx' = [ctx EXCEPT ![c] =
                    [Idle EXCEPT !.op = "retrieve", !.id = memory_id,
                        !.calls = ctx[c].calls + 1,
                        !.phrase = wake_phrase,
                        !.pc = IF os_path_exists(fs, filepath)
                               THEN "read" ELSE "idle"]]
        /\ UNCHANGED <<encryption_enabled, fs, last, stored, deleted,
                     demo, via>>

\* retrieve_memory lines 127-156: the read of the file, then the rest of the
\* call. The context remembers what it read, and, when exactly one store is
\* overwriting an existing file of the id at that moment, the two contents
\* it may see: the file as the store found it and as the store writes it.
ReadFile(c) ==
    LET filepath == get_memory_filepath(ctx[c].id)
        out == retrieve_memory(fs, encryption_enabled, ctx[c].id,
                               ctx[c].phrase, "none")
        writers == {o \in Contexts \ {c} :
                        Writing(o, ctx[c].id) /\ ctx[o].old.exists}
        w == CHOOSE o \in writers : TRUE
    IN  /\ ctx[c].pc = "read"
        /\ fs' = out.fs
        /\ ctx' = [ctx EXCEPT ![c].pc = "idle",
                              ![c].ret = out.ret,
                              ![c].seen = fs[filepath],
                              ![c].racing = Cardinality(writers) = 1,
                              ![c].expect =
                                  IF Cardinality(writers) = 1
                                  THEN {ctx[w].old, File(ctx[w].buf)}
                                  ELSE {}]
        /\ UNCHANGED <<encryption_enabled, last, stored, deleted,
                     demo, via>>

ConcStore ==
    \E c \in Contexts, m \in ConcIds, d \in GoodPayloads,
       w \in GoodPhrases : BeginStore(c, m, d, w)
ConcOpen == \E c \in Contexts : OpenForWrite(c)
ConcWrite == \E c \in Contexts : WriteBlock(c)
ConcRetrieve ==
    \E c \in Contexts, m \in ConcIds, w \in GoodPhrases :
        BeginRetrieve(c, m, w)
ConcRead == \E c \in Contexts : ReadFile(c)

ConcNext == ConcStore \/ ConcOpen \/ ConcWrite \/ ConcRetrieve \/ ConcRead

ConcSpec == Init /\ [][ConcNext]_vars

\* ------------------------------------------------------- the demo program
\* run_demo.py: PresenceAIDemo.run_interaction_loop reads a line, updates
\* the emotional state, stores the interaction in the vault when persistent
\* memory is enabled, answers, and in debug mode reads the record back.

\* What the user types.
UserInputs == {"exit", "EXIT", "I am happy", "so sad"}

\* str.lower() on those lines.
lower(text) ==
    CASE text = "EXIT" -> "exit"
      [] text = "I am happy" -> "i am happy"
      [] OTHER -> text

\* The parameters, after self, of the two driver methods the demo calls;
\* none has a default value.
store_memory_params == <<"memory_id", "data", "wake_phrase">>
retrieve_memory_params == <<"memory_id", "wake_phrase">>

\* Python's binding of positional arguments to the parameters of a method:
\* a missing or surplus argument raises TypeError before the body runs.
bind_arguments(params, args) ==
    IF Len(args) = Len(params) THEN "none" ELSE "TypeError"

\* _simulate_user_interaction: the id of the n-th interaction and its text.
simulate_user_interaction(n, prompt) ==
    [id |-> <<"interaction", n>>, text |-> prompt]

\* The dict the loop builds for the vault (lines 83-88).
memory_data(interaction) ==
    PyDict(<< <<PyStr("interaction_id"), PyStr(interaction.id)>>,
              <<PyStr("user_input"), PyStr(interaction.text)>> >>)

\* The interaction the loop is working on.
CurrentInteraction ==
    simulate_user_interaction(Len(demo.inputs),
                              demo.inputs[Len(demo.inputs)])

\* PresenceAIDemo(): the modes come from the config file, the vault is a
\* fresh VIREMVaultDriver.
DemoInit ==
    /\ encryption_enabled \in BOOLEAN
    /\ fs = [p \in Paths |-> NoFile]
    /\ last = NoCall
    /\ stored = [m \in MemoryIds |-> NoRecord]
    /\ deleted = [m \in MemoryIds |-> FALSE]
    /\ ctx = [c \in Contexts |-> Idle]
    /\ via = NoInstance
    /\ \E p, d \in BOOLEAN :
        demo = [NoDemo EXCEPT !.pc = "input",
                              !.persistent_memory_enabled = p,
                              !.debug_mode = d]

\* Lines 64-79: input(), the exit test, and the update of the emotional
\* state, which does not touch the vault.
ReadInput(text) ==
    /\ demo.pc = "input"
    /\ Len(demo.inputs) < MaxInputs
    /\ demo' = [demo EXCEPT !.inputs = Append(@, text),
                            !.pc = IF lower(text) = "exit" THEN "exited"
                                   ELSE "store"]
    /\ UNCHANGED <<encryption_enabled, fs, last, stored, deleted, ctx, via>>

\* Lines 82-94: the call self.virem_vault.store_memory(interaction_id,
\* memory_data). An exception of the call is caught nowhere in the loop.
VaultStore ==
    LET args == <<CurrentInteraction.id, memory_data(CurrentInteraction)>>
        exc == bind_arguments(store_memory_params, args)
    IN  /\ demo.pc = "store"
        /\ IF ~demo.persistent_memory_enabled
           THEN demo' = [demo EXCEPT !.pc = "respond"] /\ fs' = fs
           ELSE IF exc # "none"
           THEN demo' = [demo EXCEPT !.pc = "crashed", !.raised = exc]
                /\ fs' = fs
           ELSE /\ fs' = store_memory(fs, encryption_enabled, args[1],
                                      args[2], args[3], Nonce(0),
                                      [kind |-> "none", short |-> 0]).fs
                /\ demo' = [demo EXCEPT !.pc = "respond",
                                        !.store_calls = @ + 1]
        /\ UNCHANGED <<encryption_enabled, last, stored, deleted, ctx, via>>

\* Lines 99-108: the answer, and in debug mode with persistent memory the
\* call self.virem_vault.retrieve_memory(interaction_id).
Respond ==
    LET args == <<CurrentInteraction.id>>
        exc == bind_arguments(retrieve_memory_params, args)
    IN  /\ demo.pc = "respond"
        /\ IF ~(demo.debug_mode /\ demo.persistent_memory_enabled)
           THEN demo' = [demo EXCEPT !.pc = "input"] /\ fs' = fs
           ELSE IF exc # "none"
           THEN demo' = [demo EXCEPT !.pc = "crashed", !.raised = exc]
                /\ fs' = fs
           ELSE /\ fs' = retrieve_memory(fs, encryption_enabled, args[1],
                                         args[2], "none").fs
                /\ demo' = [demo EXCEPT !.pc = "input"]
        /\ UNCHANGED <<encryption_enabled, last, stored, deleted, ctx, via>>

DemoInput == \E text \in UserInputs : ReadInput(text)

DemoNext == DemoInput \/ VaultStore \/ Respond

DemoSpec == DemoInit /\ [][DemoNext]_vars

\* ------------------------------------------- several driver instances
\* Each VIREMVaultDriver() reads the same config file (lines 25-27): the
\* instances share the vault location and the encryption setting, and an
\* instance has no other field. Their calls come one after the other.
Instances == 1..NumInstances

\* The call is made on instance i.
On(i) == via' = [cur |-> i, prev |-> via.cur]

InstStore ==
    \E i \in Instances, m \in MemoryIds, d \in GoodPayloads,
       w \in GoodPhrases :
        /\ Store(m, d, w, Nonce(0), [kind |-> "none", short |-> 0])
        /\ On(i)
InstRetrieve ==
    \E i \in Instances, m \in MemoryIds, w \in GoodPhrases :
        Retrieve(m, w, "none") /\ On(i)
InstDelete ==
    \E i \in Instances, m \in MemoryIds : Delete(m, "none") /\ On(i)

InstNext == InstStore \/ InstRetrieve \/ InstDelete

InstSpec == Init /\ [][InstNext]_vars

\* ----------------------------------------------------------------- claims
PyTrue == PyBool(TRUE)
PyFalse == PyBool(FALSE)
\* The record file of the id of the last call.
LastFile == fs[get_memory_filepath(last.id)]
\* The last call was a retrieve_memory that no file-system fault struck.
CleanRetrieve == last.op = "retrieve" /\ last.fault = "none"
\* The record of the last call's id is Stored: a store succeeded and no
\* later call has changed the file.
LastStored == stored[last.id] # NoRecord

C2_Original ==
    (last.op = "retrieve" /\ LastStored
        /\ last.phrase # stored[last.id].phrase)
    => last.ret = PyNone

\* C2 amended: with encryption enabled, for a Stored record, retrieve_memory
\* with any phrase other than the one it was stored with returns None, never
\* the payload: through the InvalidToken or the ValueError clause when no
\* file-system fault strikes the call, through the generic clause otherwise.
C2_Confidential ==
    (encryption_enabled /\ last.op = "retrieve" /\ LastStored
        /\ last.phrase # stored[last.id].phrase)
    => (/\ last.ret = PyNone
        /\ last.handler \in {"InvalidToken", "ValueError", "Exception"}
        /\ last.fault = "none"
            => last.handler \in {"InvalidToken", "ValueError"})

C2_Witness ==
    /\ encryption_enabled /\ last.op = "retrieve" /\ LastStored
    /\ last.phrase \in GoodPhrases
    /\ last.phrase # stored[last.id].phrase
    /\ last.handler = "InvalidToken"

\* C3: a retrieve_memory with a wrong phrase, when no file-system fault
\* strikes the call, leaves every file and every Stored record as it was;
\* and while a record is Stored a retrieve with the phrase it was stored
\* with returns its payload.
C3_WrongPhraseKeepsRecord ==
    /\ [][(/\ last'.op = "retrieve" /\ last'.fault = "none"
           /\ stored[last'.id] # NoRecord
           /\ last'.phrase # stored[last'.id].phrase)
          => (fs' = fs /\ stored' = stored)]_vars
    /\ [](CleanRetrieve /\ LastStored
            /\ last.phrase = stored[last.id].phrase
          => last.ret = stored[last.id].data)

C3_Witness ==
    /\ last.op = "retrieve" /\ last.handler = "InvalidToken"
    /\ LastStored /\ LastFile.exists
    /\ last.phrase # stored[last.id].phrase

\* C4 as stated: after store_memory(id, payloadA, phraseA) and then
\* store_memory(id, payloadB, phraseB) with another phrase, the retrieve
\* that follows returns payloadB for phraseB and None for phraseA.
C4_Original ==
    (CleanRetrieve /\ last.after_store
        /\ last.over \in GoodPhrases /\ last.over # stored[last.id].phrase)
    => (/\ last.phrase = stored[last.id].phrase
            => last.ret = stored[last.id].data
        /\ last.phrase = last.over => last.ret = PyNone)

\* C4 amended: after the two stores the retrieve that follows returns
\* payloadB for phraseB, never returns anything but payloadB or None, and,
\* with encryption enabled, returns None for phraseA.
C4_Overwrite ==
    (CleanRetrieve /\ last.after_store
        /\ last.over \in GoodPhrases /\ last.over # stored[last.id].phrase)
    => (/\ last.phrase = stored[last.id].phrase
            => last.ret = stored[last.id].data
        /\ last.ret \in {stored[last.id].data, PyNone}
        /\ (encryption_enabled /\ last.phrase = last.over)
            => last.ret = PyNone)

C4_Witness ==
    /\ CleanRetrieve /\ last.after_store /\ encryption_enabled
    /\ last.over \in GoodPhrases /\ last.over # stored[last.id].phrase
    /\ last.phrase = last.over
    /\ last.ret = PyNone

\* C5: a delete_memory that no file-system fault strikes returns True
\* exactly when the record file existed and leaves the record Absent; a
\* delete_memory of the same id right after it returns False through the
\* not-found branch and the record is still Absent.
C5_IdempotentDelete ==
    /\ [][(last'.op = "delete" /\ last'.fault = "none")
          => (/\ last'.ret = PyBool(fs[get_memory_filepath(last'.id)].exists)
              /\ ~fs'[get_memory_filepath(last'.id)].exists)]_vars
    /\ [][(/\ last.op = "delete" /\ last.fault = "none"
           /\ last'.op = "delete" /\ last'.id = last.id)
          => (/\ last'.ret = PyFalse /\ last'.handler = "not_found"
              /\ ~fs'[get_memory_filepath(last'.id)].exists)]_vars

C5_Witness ==
    /\ last.op = "delete" /\ last.handler = "not_found"
    /\ last.ret = PyFalse
    /\ deleted[last.id] /\ ~LastFile.exists

\* C6: retrieve_memory of an id that has no record file returns None through
\* the not-found branch for every phrase, the empty one and a non-string
\* included, derives no key, attempts no decryption and changes no file.
C6_Absence ==
    [][(last'.op = "retrieve"
            /\ ~fs[get_memory_filepath(last'.id)].exists)
       => (/\ last'.ret = PyNone /\ last'.handler = "not_found"
           /\ ~last'.derived /\ ~last'.decrypted
           /\ fs' = fs)]_vars

C6_Witness ==
    /\ last.op = "retrieve" /\ last.handler = "not_found"
    /\ last.phrase = PyStr("") /\ ~LastFile.exists

\* C7: delete_memory takes no phrase and, when no file-system fault strikes
\* it, removes an existing record file whatever phrase it was stored with;
\* from a successful delete until the next store_memory call of the id,
\* every retrieve_memory of the id returns None through the not-found
\* branch, for every phrase.
C7_DeleteNeedsNoPhrase ==
    /\ [][(/\ last'.op = "delete" /\ last'.fault = "none"
           /\ fs[get_memory_filepath(last'.id)].exists)
          => (last'.ret = PyTrue /\ deleted'[last'.id])]_vars
    /\ [](\A m \in MemoryIds :
            deleted[m] => ~fs[get_memory_filepath(m)].exists)
    /\ []((last.op = "retrieve" /\ deleted[last.id])
          => (last.ret = PyNone /\ last.handler = "not_found"))

C7_Witness ==
    /\ last.op = "retrieve" /\ deleted[last.id]
    /\ last.phrase \in GoodPhrases
    /\ last.handler = "not_found"

\* C8: store_memory with an empty or non-string wake phrase returns False
\* through the ValueError clause, with encryption enabled or disabled, and
\* changes no file.
C8_InvalidPhraseStore ==
    [][(last'.op = "store" /\ last'.phrase \in {PyStr(""), PyNone})
       => (/\ last'.ret = PyFalse /\ last'.handler = "ValueError"
           /\ fs' = fs /\ stored' = stored)]_vars

C8_Witness ==
    /\ last.op = "store" /\ last.phrase = PyStr("")
    /\ last.ret = PyFalse /\ last.handler = "ValueError"
    /\ ~encryption_enabled
    /\ LastStored /\ LastFile.exists

\* The files a store_memory call that ran alone leaves: the complete record
\* of a payload under a phrase.
WholeRecords ==
    {File(record_bytes(encryption_enabled, derive_key_from_phrase(w).key,
                       json_dumps(d).text, Nonce(c))) :
        w \in GoodPhrases, d \in GoodPayloads, c \in Contexts}

\* C9 as stated: a retrieve_memory that reads the record file while one
\* store_memory of another context is overwriting a complete record of that
\* id reads either the file as the store found it or the file as the store
\* writes it, never an empty, truncated or half-written one.
C9_AtomicOverwrite ==
    \A c \in Contexts :
        (ctx[c].racing /\ ctx[c].expect \subseteq WholeRecords)
        => ctx[c].seen \in ctx[c].expect

\* C10 as stated: once two store_memory calls of the same id that ran
\* concurrently have both returned, and no other store of the id is under
\* way, the record file holds exactly the bytes one of the two wrote, and
\* retrieve_memory with that call's phrase returns that call's payload.
C10_LastWriterWins ==
    \A c1, c2 \in Contexts :
        (/\ c1 # c2
         /\ \A c \in {c1, c2} :
                /\ ctx[c].pc = "idle" /\ ctx[c].op = "store"
                /\ ctx[c].ret = PyTrue /\ ctx[c].overlapped
         /\ ctx[c1].id = ctx[c2].id
         /\ \A o \in Contexts : ~Writing(o, ctx[c1].id))
        => \E c \in {c1, c2} :
                /\ fs[get_memory_filepath(ctx[c].id)] = File(ctx[c].buf)
                /\ retrieve_memory(fs, encryption_enabled, ctx[c].id,
                                   ctx[c].phrase, "none").ret = ctx[c].data

NotFoundCall(c) == c.op = "retrieve" /\ c.handler = "not_found"
\* A retrieve_memory call whose decryption of an existing record failed.
DecryptFailedCall(c) == c.op = "retrieve" /\ c.handler = "InvalidToken"

\* C12 as stated: the value retrieve_memory returns for a missing record
\* differs from the value it returns when the record exists and decryption
\* fails, so that a caller who made the two calls one after the other can
\* tell them apart.
C12_NotFoundDistinct ==
    [][((NotFoundCall(last) /\ DecryptFailedCall(last'))
        \/ (DecryptFailedCall(last) /\ NotFoundCall(last')))
       => last'.ret # last.ret]_vars

\* The record file of memory_id decrypts under the key of wake_phrase, and
\* the text it yields is not valid JSON.
DecryptsButMalformed(memory_id, wake_phrase) ==
    LET file == fs[get_memory_filepath(memory_id)]
        fernet == derive_key_from_phrase(wake_phrase)
        plain == fernet_decrypt(fernet.key, file.bytes)
    IN  /\ encryption_enabled /\ file.exists
        /\ fernet.exc = "none" /\ plain.exc = "none"
        /\ json_loads(utf8_decode(plain.data)).exc # "none"

\* C13 as stated: when the record decrypts under the phrase of a
\* retrieve_memory call and the plaintext is not valid JSON, the value the
\* call returns differs from the value a retrieve_memory of the same record
\* returns for a phrase that does not match and for an invalid (empty or
\* non-string) phrase.
C13_CorruptRecordDistinct ==
    (last.op = "retrieve" /\ DecryptsButMalformed(last.id, last.phrase))
    => \A w \in WakePhrases \ {last.phrase} :
            retrieve_memory(fs, encryption_enabled, last.id, w, "none").ret
                # last.ret

\* C14 as stated: with encryption disabled, a retrieve_memory of a Stored
\* record that no file-system fault strikes attempts no decryption and,
\* needing no key, returns the stored payload for every wake phrase, the
\* empty one and a non-string included.
C14_PlainModeSkipsKey ==
    (~encryption_enabled /\ CleanRetrieve /\ LastStored)
    => (last.ret = stored[last.id].data /\ ~last.decrypted)

\* The record of memory_id is intact: as a successful store_memory left it.
Intact(memory_id) == stored[memory_id] # NoRecord
\* The bytes end in the HMAC of all that precedes it under the key.
Sealed(bytes, key) ==
    /\ Len(bytes) >= 2
    /\ bytes[Len(bytes)] = <<"mac", key, SubSeq(bytes, 1, Len(bytes) - 1)>>
\* The record file of memory_id holds corrupted ciphertext: it is sealed
\* under the key of no phrase.
Corrupted(memory_id) ==
    LET file == fs[get_memory_filepath(memory_id)]
    IN  /\ encryption_enabled /\ file.exists /\ ~Intact(memory_id)
        /\ \A w \in GoodPhrases :
            ~Sealed(file.bytes, derive_key_from_phrase(w).key)

\* C15: with encryption enabled, a retrieve_memory with a wrong phrase on an
\* intact record and a retrieve_memory with any phrase on a record of
\* corrupted ciphertext return the same value, None, through the
\* InvalidToken or the ValueError clause, and both leave every file as it
\* was, the record file present: neither the value nor the file tells the
\* two cases apart.
C15_Indistinguishable ==
    /\ (/\ encryption_enabled /\ CleanRetrieve
        /\ \/ Corrupted(last.id)
           \/ Intact(last.id) /\ last.phrase # stored[last.id].phrase)
       => (/\ last.ret = PyNone /\ LastFile.exists
           /\ last.handler \in {"InvalidToken", "ValueError"})
    /\ \A m1, m2 \in MemoryIds, w1, w2 \in WakePhrases :
        (Intact(m1) /\ w1 # stored[m1].phrase /\ Corrupted(m2))
        => LET a == retrieve_memory(fs, encryption_enabled, m1, w1, "none")
               b == retrieve_memory(fs, encryption_enabled, m2, w2, "none")
           IN  /\ a.ret = b.ret
               /\ a.fs = fs /\ b.fs = fs

C15_Witness ==
    /\ CleanRetrieve /\ Corrupted(last.id)
    /\ last.phrase \in GoodPhrases /\ last.handler = "InvalidToken"
    /\ \E m \in MemoryIds : Intact(m)

\* The key under which the record file of memory_id is sealed.
KeyOfFile(memory_id) ==
    LET bytes == fs[get_memory_filepath(memory_id)].bytes
    IN  bytes[Len(bytes)][2]

\* C16: the key is a function of the phrase alone. Two phrases derive the
\* same key exactly when they are the same phrase; and, with encryption
\* enabled, the key that seals an intact record is the hash of its phrase
\* and the fixed salt, whatever the memory id, the payload and the calls
\* made before: two intact records are sealed under the same key exactly
\* when they were stored with the same phrase.
C16_KeyDeterminism ==
    /\ \A p1, p2 \in GoodPhrases :
        (derive_key_from_phrase(p1).key = derive_key_from_phrase(p2).key)
            <=> (p1 = p2)
    /\ encryption_enabled =>
        \A m1, m2 \in MemoryIds :
            (Intact(m1) /\ Intact(m2)) =>
                /\ KeyOfFile(m1) =
                    urlsafe_b64encode(
                        sha256(<<stored[m1].phrase.v, KEY_DERIVATION_SALT>>))
                /\ (KeyOfFile(m1) = KeyOfFile(m2))
                    <=> (stored[m1].phrase = stored[m2].phrase)

C16_Witness ==
    /\ encryption_enabled /\ last.op = "store" /\ last.ret = PyTrue
    /\ \A m \in MemoryIds : Intact(m)
    /\ \E m1, m2 \in MemoryIds :
        /\ m1 # m2 /\ stored[m1].phrase = stored[m2].phrase
        /\ stored[m1].data # stored[m2].data
        /\ KeyOfFile(m1) = KeyOfFile(m2)

\* What a reader of the bytes finds in the clear: the text of the units that
\* are not ciphertext.
ClearText(bytes) ==
    {bytes[i][2] : i \in {j \in 1..Len(bytes) : bytes[j][1] = "u8"}}
\* The wake phrases and the keys derived from them, as text.
Secrets ==
    {StrTok(w.v) : w \in GoodPhrases}
    \cup {<<"key", derive_key_from_phrase(w).key>> : w \in GoodPhrases}

C18_Lifecycle ==
    [][\A m \in MemoryIds :
        /\ (~Intact(m) /\ stored'[m] # NoRecord)
            => (last'.op = "store" /\ last'.id = m /\ last'.ret = PyTrue)
        /\ (Intact(m) /\ ~fs'[get_memory_filepath(m)].exists)
            => (last'.op = "delete" /\ last'.id = m)]_vars

\* C19 as stated: with persistent memory enabled, the demo loop ends only
\* when the user enters 'exit', never on an exception; and every time it is
\* back at its prompt, each line read so far has had its vault store call,
\* made with an id and a wake phrase and returned.
C19_DemoStoresEveryInput ==
    demo.persistent_memory_enabled =>
        /\ demo.pc # "crashed"
        /\ demo.pc = "exited" => lower(demo.inputs[Len(demo.inputs)]) = "exit"
        /\ demo.pc = "input" => demo.store_calls = Len(demo.inputs)

\* The last call was made on another driver instance than the call before.
OtherInstance == via.prev # 0 /\ via.cur # via.prev

\* C20: a retrieve_memory made on one driver instance right after a call
\* completed on another instance sees what that call did: after a
\* successful store_memory of the id it returns the stored payload for the
\* storing phrase, and after a successful delete_memory of the id it
\* returns None through the not-found branch.
C20_NoCaching ==
    /\ []((last.op = "retrieve" /\ OtherInstance /\ last.after_store
            /\ last.phrase = stored[last.id].phrase)
          => last.ret = stored[last.id].data)
    /\ [][(/\ last.op = "delete" /\ last.ret = PyTrue
           /\ last'.op = "retrieve" /\ last'.id = last.id
           /\ via'.cur # via.cur)
          => (last'.ret = PyNone /\ last'.handler = "not_found")]_vars

C20_Witness ==
    /\ last.op = "retrieve" /\ OtherInstance
    /\ last.handler = "not_found" /\ deleted[last.id]
    /\ \E m \in MemoryIds : Intact(m)

\* C21: every store_memory and retrieve_memory call opens at most one file
\* handle and has closed it when it returns, whether it returns through the
\* normal path or through an except clause (invalid phrase, serialization
\* failure, decryption failure, I/O failure); a call that fails before its
\* open() opens none; no handle is open between calls.
C21_HandleReleased ==
    /\ last.handles \in {0, 1} /\ last.open_at_exit = 0
    /\ (last.op \in {"store", "retrieve"} /\ last.handler = "none")
        => last.handles = 1
    /\ (last.handler \in {"ValueError", "not_found"} /\ ~last.decrypted
            /\ encryption_enabled)
        => last.handles = 0
    /\ last.op = "delete" => last.handles = 0

C21_Witness ==
    /\ last.op = "store" /\ last.fault = "write"
    /\ last.handler = "Exception" /\ last.ret = PyFalse
    /\ last.handles = 1 /\ last.open_at_exit = 0

\* C22: a store_memory, retrieve_memory or delete_memory call on one memory
\* id, successful or failed, leaves the record file and the record state of
\* every other id as they were; and a store_memory of another id that
\* follows a failed store_memory, when no fault strikes it, succeeds, after
\* which a retrieve_memory with its phrase returns its payload.
C22_IdsIndependent ==
    /\ [][\A m \in MemoryIds \ {last'.id} :
            /\ fs'[get_memory_filepath(m)] = fs[get_memory_filepath(m)]
            /\ stored'[m] = stored[m]]_vars
    /\ [][(/\ last.op = "store" /\ last.ret = PyFalse
           /\ last'.op = "store" /\ last'.id # last.id
           /\ last'.fault = "none" /\ last'.phrase \in GoodPhrases
           /\ last'.data \in GoodPayloads)
          => (/\ last'.ret = PyTrue
              /\ stored'[last'.id] =
                    [data |-> last'.data, phrase |-> last'.phrase])]_vars
    /\ []((CleanRetrieve /\ Intact(last.id)
            /\ last.phrase = stored[last.id].phrase)
          => last.ret = stored[last.id].data)

C22_Witness ==
    /\ last.op = "store" /\ last.ret = PyFalse /\ last.fault = "write"
    /\ LastFile.exists
    /\ \E m \in MemoryIds \ {last.id} : Intact(m)

\* The wake phrases with which a fault-free retrieve_memory of memory_id
\* returns a payload in the current state.
Openers(memory_id) ==
    {w \in GoodPhrases :
        retrieve_memory(fs, encryption_enabled, memory_id, w,
                        "none").handler = "none"}

\* C23: with encryption enabled, in every reachable state each memory id
\* has at most one record file, and at most one wake phrase makes
\* retrieve_memory succeed for it: while the record of the most recent
\* successful store_memory is in place, that store's phrase and no other;
\* once a later call has changed or removed the file, none. A
\* retrieve_memory that returned a payload was made with that phrase.
C23_OneRecordOnePhrase ==
    encryption_enabled =>
        /\ \A m \in MemoryIds :
            /\ Cardinality({p \in DOMAIN fs :
                    fs[p].exists /\ p = get_memory_filepath(m)}) <= 1
            /\ Cardinality(Openers(m)) <= 1
            /\ Intact(m) => Openers(m) = {stored[m].phrase}
            /\ ~Intact(m) => Openers(m) = {}
        /\ (last.op = "retrieve" /\ last.handler = "none")
            => (Intact(last.id) /\ last.phrase = stored[last.id].phrase)

C23_Witness ==
    /\ encryption_enabled /\ last.op = "retrieve" /\ last.handler = "none"
    /\ last.after_store /\ last.ret = PayloadA
    /\ last.over \in GoodPhrases \ {last.phrase}
    /\ Openers(last.id) = {last.phrase}

\* C24 as stated: a store_memory call that returns False because the
\* payload cannot be serialized or because writing the file fails leaves an
\* intact record of that id as it was: the file is unchanged and a
\* retrieve_memory with the record's phrase still returns its payload.
C24_FailedStoreKeepsRecord ==
    [][(/\ last'.op = "store" /\ last'.ret = PyFalse
        /\ last'.handler = "Exception"
        /\ Intact(last'.id))
       => (/\ fs'[get_memory_filepath(last'.id)]
                = fs[get_memory_filepath(last'.id)]
           /\ retrieve_memory(fs', encryption_enabled, last'.id,
                              stored[last'.id].phrase, "none").ret
                = stored[last'.id].data)]_vars

\* C25: a retrieve_memory that returns a payload, or that returns None
\* through the not-found branch or the InvalidToken or ValueError clause,
\* leaves every file as it was; a retrieve_memory changes the vault only
\* through its generic clause, entered on an exception raised while reading
\* the record, where it removes the record file of its id (unless the
\* removal fails too) and nothing else, and returns None.
C25_RetrieveFrame ==
    [][last'.op = "retrieve" =>
        /\ last'.handler \in {"none", "not_found", "InvalidToken",
                              "ValueError"} => fs' = fs
        /\ last'.ret # PyNone => (last'.handler = "none" /\ fs' = fs)
        /\ fs' # fs =>
            /\ last'.handler = "Exception" /\ last'.fault = "read"
            /\ last'.ret = PyNone
            /\ fs' = os_remove(fs, get_memory_filepath(last'.id))
        /\ (last'.handler = "Exception" /\ last'.fault = "read")
            => ~fs'[get_memory_filepath(last'.id)].exists]_vars

C25_Witness ==
    /\ last.op = "retrieve" /\ last.handler = "Exception"
    /\ last.fault = "read" /\ last.ret = PyNone
    /\ ~LastFile.exists /\ last.after_store

====
